---- MODULE Spec2Model ----
(***************************************************************************)
(* OwlTrek: the date-window generator, the weather aggregation, the night  *)
(* analyzer and the digest run that ties them together.                    *)
(*                                                                         *)
(* Instants are minutes since an epoch (a JavaScript Date is an absolute   *)
(* instant; its calendar fields are read through the host's zone).         *)
(* A calendar date is a day number: the wall-clock minute \div one day.    *)
(***************************************************************************)
EXTENDS Integers, Sequences, FiniteSets, Bags, TLC

VARIABLES
    pc,          \* position of the operation under way
    host,        \* zone of the machine the code runs on
    now,         \* the instant new Date() returns
    timezone,    \* IANA zone of the location (target zone)
    count,       \* argument of getNextDays
    dates,       \* Date[] returned by the generator
    given,       \* what the astronomical oracle answered for the night
    night,       \* the NightAnalysis last returned by analyzeNight
    lat,         \* latitude handed to analyzeNight, in degrees
    lon,         \* longitude handed to analyzeNight, in degrees
    hourIdx,     \* processHourlyData: hourly samples read so far
    nightHoursByDate,  \* processHourlyData: night date -> its samples
    weatherData, \* Map<string, NightWeather> of getWeatherForecast
    idx,         \* digest run: candidate nights analysed so far
    nightWeather, \* digest run: what weatherData.get(dateStr) returned
    email,       \* digest run: what became of the subscriber's email
    arg,         \* argument of a call of getMoonPhaseName / Math.round
    result,      \* what that call returned
    request,     \* digest request: where it came from, the secret it carries
    db,          \* the subscribers table, in rowid order
    selected,    \* digest request: the rows the SELECT returned
    cursor,      \* digest request: position of the for loop in `selected`
    emailsSent,  \* digest request: emails the mail service accepted
    errors,      \* digest request: the errors[] of the response
    outbox,      \* digest request: recipients of the emails attempted
    response,    \* digest request: the Response returned
    log,         \* every email attempted so far: to whom, when, accepted?
    runs,        \* digest requests started so far
    clients,     \* subscriber requests under way, one per connection
    uuid,        \* crypto.randomUUID(): tokens generated so far
    started,     \* subscriber requests started so far
    events       \* the writes to the table by those requests, in order

dateVars == <<host, now, timezone, count, dates>>
nightVars == <<given, night, lat, lon>>
weatherVars == <<hourIdx, nightHoursByDate, weatherData>>
digestVars == <<idx, nightWeather, email>>
moonVars == <<arg, result>>
batchVars ==
    <<request, db, selected, cursor, emailsSent, errors, outbox, response>>
historyVars == <<log, runs>>
lifeVars == <<clients, uuid, started, events>>
vars ==
    <<pc, dateVars, nightVars, weatherVars, digestVars, moonVars, batchVars,
      historyVars, lifeVars>>

(***************************************************************************)
(* Bounds of the model.                                                    *)
(***************************************************************************)
MaxCount == 3          \* largest count handed to getNextDays
NowDays == 2           \* "now" ranges over this many days, hour by hour
ResponseDays == 1      \* days of hourly samples in a weather response
MaxPhase == 9999       \* largest moon phase tried, in ten-thousandths
MaxFraction == 1000    \* largest illumination fraction tried, in thousandths
NumSubscribers == 2    \* rows of the subscribers table
MaxRuns == 3           \* digest requests in a row
MaxRequests == 4       \* subscribe / confirm / unsubscribe requests in all

MinutesPerHour == 60
MinutesPerDay == 24 * MinutesPerHour
Null == "null"             \* null (of a string-valued field)
NoTime == 0 - 1            \* null / undefined / Invalid Date (of a Date)
None == [none |-> TRUE]    \* no record yet
EmptyMap == [d \in {} |-> None]   \* new Map()

\* no digest request is under way
NoRequest ==
    /\ request = None
    /\ db = <<>>
    /\ selected = <<>>
    /\ cursor = 0
    /\ emailsSent = 0
    /\ errors = <<>>
    /\ outbox = <<>>
    /\ response = None
    /\ log = <<>>
    /\ runs = 0
    /\ clients = <<>>
    /\ uuid = 0
    /\ started = 0
    /\ events = <<>>

\* the location of the digest, and the coordinates a caller may hand over:
\* the valid range is -90..90 by -180..180
DefaultLat == 33
DefaultLon == 0 - 117
Latitudes == {0 - 91, 0 - 90, DefaultLat, 90, 91}
Longitudes == {0 - 181, 0 - 180, DefaultLon, 180, 181}

(***************************************************************************)
(* Zones: offset `before` (minutes east of UTC) until the instant `at`,    *)
(* offset `after` from then on.  A zone without daylight saving has        *)
(* before = after.                                                         *)
(***************************************************************************)
FirstDay == 3 * MinutesPerDay                  \* first day "now" may fall on
TransitionDay == FirstDay + MinutesPerDay      \* day of the clock change

UTC == [name |-> "UTC", before |-> 0, after |-> 0, at |-> 0]
Tokyo == [name |-> "Asia/Tokyo", before |-> 9 * MinutesPerHour,
          after |-> 9 * MinutesPerHour, at |-> 0]
\* 02:00 PST -> 03:00 PDT (a 23-hour local day)
LosAngelesSpring ==
    [name |-> "America/Los_Angeles", before |-> -8 * MinutesPerHour,
     after |-> -7 * MinutesPerHour, at |-> TransitionDay + 10 * MinutesPerHour]
\* 02:00 PDT -> 01:00 PST (a 25-hour local day)
LosAngelesFall ==
    [name |-> "America/Los_Angeles", before |-> -7 * MinutesPerHour,
     after |-> -8 * MinutesPerHour, at |-> TransitionDay + 9 * MinutesPerHour]
\* 01:00 GMT -> 02:00 BST
LondonSpring ==
    [name |-> "Europe/London", before |-> 0,
     after |-> 1 * MinutesPerHour, at |-> TransitionDay + 1 * MinutesPerHour]

\* no daylight saving
Phoenix == [name |-> "America/Phoenix", before |-> -7 * MinutesPerHour,
            after |-> -7 * MinutesPerHour, at |-> 0]
\* 00:00 AZOT (UTC-1) -> 01:00 AZOST (UTC+0), at 01:00 UTC
AzoresSpring ==
    [name |-> "Atlantic/Azores", before |-> -1 * MinutesPerHour,
     after |-> 0, at |-> TransitionDay + 1 * MinutesPerHour]

HostZones == {UTC, Tokyo, LosAngelesSpring, LosAngelesFall}
TargetZones ==
    {UTC, Tokyo, LosAngelesSpring, LosAngelesFall, LondonSpring, AzoresSpring}

Offset(zone, t) == IF t < zone.at THEN zone.before ELSE zone.after

\* wall-clock minute of instant t in a zone, and its calendar day
Wall(zone, t) == t + Offset(zone, t)
LocalDay(zone, t) == Wall(zone, t) \div MinutesPerDay
LocalMinuteOfDay(zone, t) == Wall(zone, t) % MinutesPerDay

\* The instant a Date built from wall-clock fields denotes in a zone
\* (Date#setHours, Date#setDate, new Date(y, m, d, ...)): an ambiguous wall
\* time is the earlier instant, a skipped one is read with the offset before
\* the transition.
LocalToInstant(zone, wall) ==
    IF wall - zone.before < zone.at THEN wall - zone.before
    ELSE IF wall - zone.after >= zone.at THEN wall - zone.after
    ELSE wall - zone.before

(***************************************************************************)
(* date-fns / date-fns-tz, as the generator uses them.                     *)
(***************************************************************************)
\* toZonedTime(date, tz): a Date whose host-local fields read the wall
\* clock of tz at `date`
toZonedTime_noConversion(date, tz) == date

toZonedTime(date, tz) == LocalToInstant(host, Wall(tz, date))

\* startOfDay(date): host-local setHours(0, 0, 0, 0)
startOfDay(date) ==
    LocalToInstant(host, LocalDay(host, date) * MinutesPerDay)

\* addDays(date, n): host-local setDate(getDate() + n)
addDays(date, n) ==
    LocalToInstant(host, Wall(host, date) + n * MinutesPerDay)

\* format(date, 'yyyy-MM-dd', { timeZone }): the pattern holds no zone token,
\* so the host-local calendar fields of `date` are printed
formatYMD(date, tz) == LocalDay(host, date)

\* date.toISOString().split('T')[0]: the UTC calendar date
toISODate(date) == date \div MinutesPerDay

(***************************************************************************)
(* The date-window generator.                                              *)
(***************************************************************************)
getNextDays(tz, n) ==
    LET nowUtc == now
        localNow == toZonedTime(nowUtc, tz)
        localStartOfDay == startOfDay(localNow)
    IN  [i \in 1..n |-> addDays(localStartOfDay, i - 1)]

WeekDays == 7

getNextWeek(tz) == getNextDays(tz, WeekDays)

NowInstants ==
    {FirstDay + h * MinutesPerHour : h \in 0..(24 * NowDays - 1)}

InitDates ==
    /\ pc = "start"
    /\ host \in HostZones
    /\ timezone \in TargetZones
    /\ now \in NowInstants
    /\ count \in 1..MaxCount
    /\ dates = <<>>
    /\ given = None
    /\ night = None
    /\ lat = DefaultLat
    /\ lon = DefaultLon
    /\ hourIdx = 0
    /\ nightHoursByDate = EmptyMap
    /\ weatherData = EmptyMap
    /\ idx = 0
    /\ nightWeather = None
    /\ email = "none"
    /\ arg = 0
    /\ result = None
    /\ NoRequest

GetNextDays ==
    /\ pc = "start"
    /\ dates' = getNextDays(timezone, count)
    /\ pc' = "generated"
    /\ UNCHANGED <<host, now, timezone, count, nightVars, weatherVars,
                   digestVars, moonVars, batchVars, historyVars,
                   lifeVars>>

GetNextWeek ==
    /\ pc = "start"
    /\ dates' = getNextWeek(timezone)
    /\ count' = WeekDays
    /\ pc' = "generated"
    /\ UNCHANGED <<host, now, timezone, nightVars, weatherVars, digestVars,
                   moonVars, batchVars, historyVars,
                   lifeVars>>

NextDates == GetNextDays \/ GetNextWeek

SpecDates == InitDates /\ [][NextDates]_vars

(***************************************************************************)
(* Claims about the date-window generator (checked under SpecDates).       *)
(***************************************************************************)
\* C6: the generator returns exactly `count` instants, strictly increasing,
\* and consecutive instants fall on consecutive calendar days of the target
\* zone, also when a clock change of that zone lies inside the window.
C6_CountIncreasingConsecutive ==
    pc = "generated" =>
        /\ Len(dates) = count
        /\ \A i \in 1..(count - 1) :
              /\ dates[i] < dates[i + 1]
              /\ LocalDay(timezone, dates[i + 1])
                    = LocalDay(timezone, dates[i]) + 1

\* C7: day 0 of the window, and the dateString printed for it, is the
\* calendar date of "now" in the target zone, whatever the host's zone.
C7_DayZeroIsTargetToday ==
    pc = "generated" =>
        formatYMD(dates[1], timezone) = LocalDay(timezone, now)

\* the host (UTC) date and the target-local date of "now" differ
C7_Witness ==
    /\ pc = "generated"
    /\ host = UTC
    /\ LocalDay(UTC, now) # LocalDay(timezone, now)
    /\ formatYMD(dates[1], timezone) = LocalDay(timezone, now)

\* C8: every emitted instant, converted to the target zone, reads 00:00 of
\* day 0 + i.
C8_InstantIsTargetMidnight ==
    pc = "generated" =>
        \A i \in 1..Len(dates) :
            Wall(timezone, dates[i])
                = (LocalDay(timezone, now) + i - 1) * MinutesPerDay

(***************************************************************************)
(* The astronomical oracle (SunCalc).  A fraction is in thousandths, a     *)
(* phase in ten-thousandths; fraction = (1 - cos(2 pi phase)) / 2.         *)
(***************************************************************************)
MoonIlluminations ==
    { [phase |-> 0, fraction |-> 0],
      [phase |-> 500, fraction |-> 24],
      [phase |-> 1000, fraction |-> 95],
      [phase |-> 1024, fraction |-> 100],
      [phase |-> 1100, fraction |-> 115],
      [phase |-> 2500, fraction |-> 500],
      [phase |-> 3900, fraction |-> 885],
      [phase |-> 3976, fraction |-> 900],
      [phase |-> 4000, fraction |-> 904],
      [phase |-> 4320, fraction |-> 955],
      [phase |-> 5000, fraction |-> 1000],
      [phase |-> 7500, fraction |-> 500],
      [phase |-> 9500, fraction |-> 24] }

\* sunset of the night of `date`: 18:00 after it, or none (polar night/day)
Sunsets(date) == {NoTime, date + 18 * MinutesPerHour}

\* moonset and moonrise, relative to an 18:00 sunset
MoonSets(date) ==
    {NoTime} \cup { date + 18 * MinutesPerHour + d :
                    d \in {-180, -121, -120, -30, 0, 30, 60, 61, 120, 121, 300} }
MoonRises(date) ==
    {NoTime} \cup { date + 18 * MinutesPerHour + d : d \in {-240, 120, 240, 420} }

\* SunCalc answers for any coordinates: it computes, it does not validate
SunCalcAnswers(date) ==
    [moonIllum : MoonIlluminations,
     rise : MoonRises(date), set : MoonSets(date), sunset : Sunsets(date)]

(***************************************************************************)
(* The night analyzer of the digest (goodNightType / reason).              *)
(***************************************************************************)
\* Math.round of a value given in tenths
roundTenths(x) == (x + 5) \div 10

\* a plausible slip: a moon that never sets is taken for a moon that is down
(***************************************************************************)
(* moonIllum.fraction * 100 on IEEE-754 doubles.  A fraction of k          *)
(* thousandths is the double nearest k / 1000, whose significand is        *)
(* (k * 2^e - rs) / 1000 for the signed remainder rs of k * 2^e modulo     *)
(* 1000, with e = MantissaBits + j and 2^-j <= k / 1000 < 2^(1 - j).  For  *)
(* k = 10 m + 5 the exact product is m + 1/2 - rs / (10 * 2^e); the        *)
(* multiplication rounds it to the double just below m + 1/2 when it lies  *)
(* more than half a unit in the last place (2^(E - MantissaBits - 1),      *)
(* 2^E <= m + 1/2 < 2^(E + 1)) below it.  Off those points the product is  *)
(* nowhere near a half and Math.round sees the exact tenths.               *)
(***************************************************************************)
MantissaBits == 52

RECURSIVE Pow2Mod(_, _)
Pow2Mod(n, m) == IF n = 0 THEN 1 % m ELSE (2 * Pow2Mod(n - 1, m)) % m

\* j with 2^-j <= k / 1000 < 2^(1 - j), for 1 <= k
BinaryExponent(k) ==
    CHOOSE j \in 0..10 : k * 2^j >= 1000 /\ (j = 0 \/ k * 2^(j - 1) < 1000)

\* floor(log2(n)), for 1 <= n < 256
Log2Floor(n) == CHOOSE e \in 0..7 : 2^e <= n /\ n < 2^(e + 1)

\* the double product fraction * 100 falls just below a half-integer
productBelowHalf(fraction) ==
    /\ fraction % 10 = 5
    /\ LET m == fraction \div 10
           j == BinaryExponent(fraction)
           r == (fraction * Pow2Mod(MantissaBits + j, 1000)) % 1000
           rs == IF r <= 500 THEN r ELSE r - 1000
           E == Log2Floor(2 * m + 1) - 1
       IN  rs > 10 * 2^(j + E - 1)

\* Math.round(moonIllum.fraction * 100), the fraction in thousandths
roundIllumination(fraction) ==
    IF productBelowHalf(fraction) THEN fraction \div 10
    ELSE roundTenths(fraction)

checkMoonSetsNearSunset_absentIsDark(moonSet, sunset) ==
    IF moonSet = NoTime THEN TRUE
    ELSE IF sunset = NoTime THEN FALSE
    ELSE LET diffMinutes == moonSet - sunset
         IN  diffMinutes >= -2 * MinutesPerHour /\ diffMinutes <= 2 * MinutesPerHour

\* a plausible slip: only a moonset before sunset counts
checkMoonSetsNearSunset_beforeOnly(moonSet, sunset) ==
    IF moonSet = NoTime \/ sunset = NoTime THEN FALSE
    ELSE LET diffMinutes == moonSet - sunset
         IN  diffMinutes >= -2 * MinutesPerHour /\ diffMinutes <= 0

checkMoonSetsNearSunset(moonSet, sunset) ==
    IF moonSet = NoTime \/ sunset = NoTime THEN FALSE
    ELSE LET diffMinutes == moonSet - sunset
         IN  diffMinutes >= -2 * MinutesPerHour /\ diffMinutes <= 2 * MinutesPerHour

\* a plausible slip: the moonset branch sets the type and forgets the reason
decideGoodNight_noReason(isClearWeather, isFullMoon, isNewMoon, moonSetsNearSunset) ==
    IF ~isClearWeather THEN [goodNightType |-> Null, reason |-> Null]
    ELSE IF isFullMoon
         THEN [goodNightType |-> "hiking", reason |-> "Full moon for night hiking"]
    ELSE IF isNewMoon
         THEN [goodNightType |-> "stargazing", reason |-> "New moon for stargazing"]
    ELSE IF moonSetsNearSunset
         THEN [goodNightType |-> "stargazing", reason |-> Null]
    ELSE [goodNightType |-> Null, reason |-> Null]

\* a plausible slip: the moonset branch is tried before the full-moon branch
decideGoodNight_moonsetFirst(isClearWeather, isFullMoon, isNewMoon, moonSetsNearSunset) ==
    IF ~isClearWeather THEN [goodNightType |-> Null, reason |-> Null]
    ELSE IF moonSetsNearSunset
         THEN [goodNightType |-> "stargazing", reason |-> "Moon sets early - dark skies"]
    ELSE IF isFullMoon
         THEN [goodNightType |-> "hiking", reason |-> "Full moon for night hiking"]
    ELSE IF isNewMoon
         THEN [goodNightType |-> "stargazing", reason |-> "New moon for stargazing"]
    ELSE [goodNightType |-> Null, reason |-> Null]

\* the if / else-if chain that sets goodNightType and reason
decideGoodNight(isClearWeather, isFullMoon, isNewMoon, moonSetsNearSunset) ==
    IF ~isClearWeather THEN [goodNightType |-> Null, reason |-> Null]
    ELSE IF isFullMoon
         THEN [goodNightType |-> "hiking", reason |-> "Full moon for night hiking"]
    ELSE IF isNewMoon
         THEN [goodNightType |-> "stargazing", reason |-> "New moon for stargazing"]
    ELSE IF moonSetsNearSunset
         THEN [goodNightType |-> "stargazing", reason |-> "Moon sets early - dark skies"]
    ELSE [goodNightType |-> Null, reason |-> Null]

\* analyzeNight(date, lat, lon, timezone); `sun` is what SunCalc answers for
\* (date, lat, lon).  The function has four parameters: a fifth argument of
\* a caller is dropped.
analyzeNight(date, tz, sun) ==
    LET illuminationPercent == sun.moonIllum.fraction      \* in tenths of %
        sunset == sun.sunset
        isNewMoon == illuminationPercent < 10 * 10
        isFullMoon == illuminationPercent > 90 * 10
        moonSetsNearSunset == checkMoonSetsNearSunset(sun.set, sunset)
        weather == "Clear"
        isClearWeather == TRUE
        decided == decideGoodNight(isClearWeather, isFullMoon, isNewMoon,
                                   moonSetsNearSunset)
        isGoodNight == decided.goodNightType # Null
    IN  [dateString |-> formatYMD(date, tz),
         illumination |-> roundIllumination(sun.moonIllum.fraction),
         moonPhase |-> sun.moonIllum.phase,
         moonRise |-> sun.rise,
         moonSet |-> sun.set,
         sunset |-> sunset,
         weather |-> weather,
         isGoodNight |-> isGoodNight,
         goodNightType |-> decided.goodNightType,
         reason |-> decided.reason]

(***************************************************************************)
(* The night analyzer of the forecast endpoint (reasons[]).                *)
(***************************************************************************)
ClearSkiesReason == "Clear skies expected"
MoonReasons ==
    {"New Moon - Excellent for stargazing", "Full Moon - Great for night hiking"}

analyzeNightReasons(date, tz, sun) ==
    LET illuminationPercent == sun.moonIllum.fraction      \* in tenths of %
        isNewMoon == illuminationPercent < 10 * 10
        isFullMoon == illuminationPercent > 90 * 10
        weather == "Clear"
        isClearWeather == weather = "Clear"
        moonReason == IF isNewMoon THEN <<"New Moon - Excellent for stargazing">>
                      ELSE IF isFullMoon THEN <<"Full Moon - Great for night hiking">>
                      ELSE <<>>
        reasons == moonReason \o (IF isClearWeather THEN <<ClearSkiesReason>> ELSE <<>>)
        isGoodNight == (isNewMoon \/ isFullMoon) /\ isClearWeather
    IN  [dateString |-> formatYMD(date, tz),
         illumination |-> roundIllumination(sun.moonIllum.fraction),
         moonPhase |-> sun.moonIllum.phase,
         moonRise |-> sun.rise,
         moonSet |-> sun.set,
         weather |-> weather,
         isGoodNight |-> isGoodNight,
         reasons |-> reasons]

InitNight ==
    /\ pc = "start"
    /\ host = UTC
    /\ timezone = UTC
    /\ now = FirstDay
    /\ count = 0
    /\ dates = <<>>
    /\ given = None
    /\ night = None
    /\ lat = DefaultLat
    /\ lon = DefaultLon
    /\ hourIdx = 0
    /\ nightHoursByDate = EmptyMap
    /\ weatherData = EmptyMap
    /\ idx = 0
    /\ nightWeather = None
    /\ email = "none"
    /\ arg = 0
    /\ result = None
    /\ NoRequest

\* one call of the digest's analyzeNight on a candidate night
AnalyzeNight ==
    /\ pc = "start"
    /\ \E date \in {FirstDay, FirstDay + MinutesPerDay} :
       \E sun \in SunCalcAnswers(date) :
       \E la \in Latitudes : \E lo \in Longitudes :
          /\ given' = sun
          /\ lat' = la
          /\ lon' = lo
          /\ night' = analyzeNight(date, timezone, sun)
    /\ pc' = "analysed"
    /\ UNCHANGED <<dateVars, weatherVars, digestVars, moonVars, batchVars,
                   historyVars,
                   lifeVars>>

\* one call of the forecast endpoint's analyzeNight
AnalyzeNightReasons ==
    /\ pc = "start"
    /\ \E date \in {FirstDay, FirstDay + MinutesPerDay} :
       \E sun \in SunCalcAnswers(date) :
       \E la \in Latitudes : \E lo \in Longitudes :
          /\ given' = sun
          /\ lat' = la
          /\ lon' = lo
          /\ night' = analyzeNightReasons(date, timezone, sun)
    /\ pc' = "analysed"
    /\ UNCHANGED <<dateVars, weatherVars, digestVars, moonVars, batchVars,
                   historyVars,
                   lifeVars>>

NextNight == AnalyzeNight \/ AnalyzeNightReasons

SpecNight == InitNight /\ [][NextNight]_vars

(***************************************************************************)
(* Claims about one night analysis (checked under SpecNight).              *)
(***************************************************************************)
HasReasons == "reasons" \in DOMAIN night
HasType == "goodNightType" \in DOMAIN night

\* C1 as stated: in every analysis returned by either analyzeNight,
\* isGoodNight holds iff the category is not null, and a reason is present
\* iff isGoodNight holds.
C1_GoodIffCategoryIffReason ==
    /\ HasType =>
          /\ night.isGoodNight <=> night.goodNightType # Null
          /\ night.reason # Null <=> night.isGoodNight
    /\ HasReasons => (night.reasons # <<>> <=> night.isGoodNight)

\* C1 amended: the iff holds for the analyzer with goodNightType; in the
\* reasons[] analyzer a moon reason is listed iff isGoodNight, and the
\* clear-skies entry is listed on every night.
C1_Amended ==
    /\ HasType =>
          /\ night.isGoodNight <=> night.goodNightType # Null
          /\ night.reason # Null <=> night.isGoodNight
    /\ HasReasons =>
          /\ night.isGoodNight <=>
                \E i \in 1..Len(night.reasons) : night.reasons[i] \in MoonReasons
          /\ \E i \in 1..Len(night.reasons) : night.reasons[i] = ClearSkiesReason

\* a good night that is good by the moonset branch alone
C1_Witness ==
    /\ HasType
    /\ night.isGoodNight
    /\ night.goodNightType = "stargazing"
    /\ night.illumination = 50
    /\ night.reason # Null

ModerateMoon ==
    given.moonIllum.fraction >= 100 /\ given.moonIllum.fraction <= 900

\* the three moon-free-evening cases of the decision policy, on what the
\* oracle answered; local midnight is the end of the analysed date
LocalMidnight == (night.dateString + 1) * MinutesPerDay
CaseA_MoonDownAllEvening ==
    /\ given.set # NoTime /\ given.sunset # NoTime /\ given.rise # NoTime
    /\ given.set < given.sunset
    /\ given.rise > LocalMidnight
CaseB_MoonSetsEarly ==
    /\ given.set # NoTime /\ given.sunset # NoTime
    /\ given.set >= given.sunset
    /\ given.set - given.sunset <= 1 * MinutesPerHour
CaseC_LateMoonrise ==
    /\ given.rise # NoTime /\ given.sunset # NoTime
    /\ given.rise - given.sunset >= 4 * MinutesPerHour

\* C12: with illumination between 10% and 90% and the weather gate open, a
\* night whose moon sets within one hour after sunset is a good night of
\* category stargazing with reason "Moon sets early - dark skies".
C12_MoonSetsEarly ==
    HasType /\ ModerateMoon /\ CaseB_MoonSetsEarly =>
        /\ night.isGoodNight
        /\ night.goodNightType = "stargazing"
        /\ night.reason = "Moon sets early - dark skies"

\* illumination 50%, moonset half an hour after sunset
C12_Witness ==
    /\ HasType
    /\ given.moonIllum.fraction = 500
    /\ given.sunset # NoTime
    /\ given.set = given.sunset + 30
    /\ night.isGoodNight
    /\ night.reason = "Moon sets early - dark skies"

\* C13: a moon-free evening under a moderate moon gets the reason of the
\* first matching case in the order a, b, c, and a night matching only
\* case c is a good stargazing night.
C13_ReasonOfFirstCase ==
    HasType /\ ModerateMoon =>
        /\ CaseA_MoonDownAllEvening =>
              /\ night.goodNightType = "stargazing"
              /\ night.reason = "Moon down all evening - dark skies"
        /\ ~CaseA_MoonDownAllEvening /\ CaseB_MoonSetsEarly =>
              /\ night.goodNightType = "stargazing"
              /\ night.reason = "Moon sets early - dark skies"
        /\ ~CaseA_MoonDownAllEvening /\ ~CaseB_MoonSetsEarly /\ CaseC_LateMoonrise =>
              /\ night.isGoodNight
              /\ night.goodNightType = "stargazing"
              /\ night.reason = "Late moonrise - dark evening"

\* C14: a night is good only if it is a full moon, a new moon or a
\* moon-free evening by case a, b or c (the weather gate of this analyzer
\* is always open); a moderate moon matching none of the cases is not good.
C14_GoodOnlyIfCriterion ==
    HasType /\ night.isGoodNight =>
        \/ given.moonIllum.fraction > 900
        \/ given.moonIllum.fraction < 100
        \/ CaseA_MoonDownAllEvening
        \/ CaseB_MoonSetsEarly
        \/ CaseC_LateMoonrise

\* the fields of a NightAnalysis
NightAnalysisFields ==
    {"dateString", "illumination", "moonPhase", "moonRise", "moonSet", "sunset",
     "weather", "isGoodNight", "goodNightType", "reason"}

\* the analysis is complete and reports the oracle's answers, absent ones
\* as absent
CompleteAnalysis ==
    /\ DOMAIN night = NightAnalysisFields
    /\ night.moonRise = given.rise
    /\ night.moonSet = given.set
    /\ night.sunset = given.sunset

\* the classification rests on the full / new moon checks alone
FullOrNewMoonAlone ==
    /\ night.isGoodNight <=>
          (given.moonIllum.fraction > 900 \/ given.moonIllum.fraction < 100)
    /\ night.goodNightType =
          IF given.moonIllum.fraction > 900 THEN "hiking"
          ELSE IF given.moonIllum.fraction < 100 THEN "stargazing"
          ELSE Null

\* C15 as stated: when moonrise, moonset or sunset is absent the analysis
\* is still complete, the absent field is reported absent, and the
\* classification rests on the full / new moon checks alone.
C15_MissingFactsAsStated ==
    HasType /\ (given.rise = NoTime \/ given.set = NoTime \/ given.sunset = NoTime)
        => CompleteAnalysis /\ FullOrNewMoonAlone

\* C15 amended: every analysis is complete and reports an absent moonrise,
\* moonset or sunset as absent; when moonset or sunset is absent the
\* classification rests on the full / new moon checks alone.  An absent
\* moonrise alone leaves the moonset test in force: a moderate moon that
\* sets within one hour after sunset is still a good stargazing night.
C15_Amended ==
    HasType =>
        /\ CompleteAnalysis
        /\ (given.set = NoTime \/ given.sunset = NoTime) => FullOrNewMoonAlone
        /\ (given.rise = NoTime /\ ModerateMoon /\ CaseB_MoonSetsEarly) =>
              night.isGoodNight /\ night.goodNightType = "stargazing"

\* a moderate moon with neither moonset nor sunset: analysed, not good
C15_Witness ==
    /\ HasType
    /\ given.set = NoTime /\ given.sunset = NoTime /\ given.rise = NoTime
    /\ given.moonIllum.fraction = 500
    /\ night.moonSet = NoTime /\ night.sunset = NoTime /\ night.moonRise = NoTime
    /\ ~night.isGoodNight
    /\ night.reason = Null

\* C20: coordinates outside -90..90 by -180..180 make analyzeNight fail:
\* no Night Analysis is returned for them.
C20_OutOfRangeFails ==
    HasType => /\ lat >= 0 - 90 /\ lat <= 90
               /\ lon >= 0 - 180 /\ lon <= 180

(***************************************************************************)
(* The weather aggregation (getWeatherForecast / processHourlyData).       *)
(* The response holds 24 hourly samples per day from 00:00 of the first    *)
(* forecast date, stamped in the forecast's local time without a zone.     *)
(* A bucket keeps the indices of its samples and, of the sample values,    *)
(* the sums and the maximum the second loop reduces them to.               *)
(***************************************************************************)
HoursPerDay == MinutesPerDay \div MinutesPerHour
\* the forecast starts at today's date in the location's zone (timezone=auto)
ForecastFirstDate == LocalDay(timezone, now)
ResponseHours == HoursPerDay * ResponseDays
ForecastDates == ForecastFirstDate..(ForecastFirstDate + ResponseDays - 1)

\* what Open-Meteo may answer for one hour
HourlySamples ==
    { [cloud_cover |-> 10, precipitation_probability |-> 0, wind_speed_10m |-> 5],
      [cloud_cover |-> 50, precipitation_probability |-> 0, wind_speed_10m |-> 5],
      [cloud_cover |-> 10, precipitation_probability |-> 20, wind_speed_10m |-> 5],
      [cloud_cover |-> 10, precipitation_probability |-> 0, wind_speed_10m |-> 45] }

\* hourly.time[i] = "<date>T<hour>:00"
timeDate(i) == ForecastFirstDate + (i \div HoursPerDay)
timeHour(i) == i % HoursPerDay

\* new Date(hourly.time[i]): a date-time string without a zone is host-local
parseDateTime(i) ==
    LocalToInstant(host, timeDate(i) * MinutesPerDay + timeHour(i) * MinutesPerHour)

getHours(date) == LocalMinuteOfDay(host, date) \div MinutesPerHour

\* prevDay.setDate(prevDay.getDate() - 1); prevDay.toISOString().split('T')[0]
previousNightDate(dateTime) ==
    toISODate(LocalToInstant(host, Wall(host, dateTime) - MinutesPerDay))

NoDate == 0 - 1

\* the night a sample is filed under, NoDate for a daytime sample
nightDateOf(i) ==
    LET dateTime == parseDateTime(i)
        hour == getHours(dateTime)
    IN  IF hour >= 20 \/ hour <= 2
        THEN IF hour >= 20 THEN timeDate(i) ELSE previousNightDate(dateTime)
        ELSE NoDate

Max(a, b) == IF a >= b THEN a ELSE b

EmptyBucket ==
    [indices |-> <<>>, samples |-> EmptyBag,
     sumCloud |-> 0, sumWind |-> 0, sumPrecip |-> 0, maxPrecip |-> 0]

\* nightHoursByDate.get(nightDate).push(i), with the values of sample i
pushSample(map, nightDate, i, sample) ==
    LET old == IF nightDate \in DOMAIN map THEN map[nightDate] ELSE EmptyBucket
        new == [indices |-> Append(old.indices, i),
                samples |-> old.samples (+) SetToBag({sample}),
                sumCloud |-> old.sumCloud + sample.cloud_cover,
                sumWind |-> old.sumWind + sample.wind_speed_10m,
                sumPrecip |-> old.sumPrecip + sample.precipitation_probability,
                maxPrecip |-> Max(old.maxPrecip, sample.precipitation_probability)]
    IN  [d \in DOMAIN map \cup {nightDate} |-> IF d = nightDate THEN new ELSE map[d]]

\* Math.round(sum / n), halves up
roundAverage(sum, n) == (2 * sum + n) \div (2 * n)

\* a plausible slip: <= in place of <
isGoodWeatherOf_nonStrict(bucket) ==
    LET n == Len(bucket.indices)
    IN  /\ bucket.sumCloud <= 30 * n
        /\ bucket.maxPrecip <= 20
        /\ bucket.sumWind <= 25 * n

\* isClear && maxPrecipProb < 20 && avgWindSpeed < 25, on average = sum / n
isGoodWeatherOf(bucket) ==
    LET n == Len(bucket.indices)
        isClear == bucket.sumCloud < 30 * n
    IN  isClear /\ bucket.maxPrecip < 20 /\ bucket.sumWind < 25 * n

\* a plausible slip: precipitation averaged like the other measures
nightWeatherOf_meanPrecip(bucket) ==
    LET n == Len(bucket.indices)
        avgPrecipProb == roundAverage(bucket.sumPrecip, n)
    IN  [cloudCover |-> roundAverage(bucket.sumCloud, n),
         windSpeed |-> roundAverage(bucket.sumWind, n),
         precipitationProb |-> avgPrecipProb,
         isClear |-> bucket.sumCloud < 30 * n,
         isGoodWeather |-> /\ bucket.sumCloud < 30 * n
                           /\ bucket.sumPrecip < 20 * n
                           /\ bucket.sumWind < 25 * n]

nightWeatherOf(bucket) ==
    LET n == Len(bucket.indices)
    IN  [cloudCover |-> roundAverage(bucket.sumCloud, n),
         windSpeed |-> roundAverage(bucket.sumWind, n),
         precipitationProb |-> bucket.maxPrecip,
         isClear |-> bucket.sumCloud < 30 * n,
         isGoodWeather |-> isGoodWeatherOf(bucket)]

WeatherHosts == {UTC, Tokyo, Phoenix}

InitWeather ==
    /\ pc = "bucketing"
    /\ host \in WeatherHosts
    /\ timezone = UTC
    /\ now = FirstDay
    /\ count = 0
    /\ dates = <<>>
    /\ given = None
    /\ night = None
    /\ lat = DefaultLat
    /\ lon = DefaultLon
    /\ hourIdx = 0
    /\ nightHoursByDate = EmptyMap
    /\ weatherData = EmptyMap
    /\ idx = 0
    /\ nightWeather = None
    /\ email = "none"
    /\ arg = 0
    /\ result = None
    /\ NoRequest

\* one pass of the first loop: sample hourIdx is filed or skipped
ReadHour ==
    /\ pc = "bucketing"
    /\ hourIdx < ResponseHours
    /\ LET nightDate == nightDateOf(hourIdx)
       IN  IF nightDate = NoDate
           THEN UNCHANGED nightHoursByDate
           ELSE \E sample \in HourlySamples :
                   nightHoursByDate' =
                       pushSample(nightHoursByDate, nightDate, hourIdx, sample)
    /\ hourIdx' = hourIdx + 1
    /\ UNCHANGED <<pc, dateVars, nightVars, weatherData, digestVars, moonVars, batchVars,
                   historyVars,
                   lifeVars>>

\* the second loop: every bucket is reduced to its NightWeather
ReduceNights ==
    /\ pc = "bucketing"
    /\ hourIdx = ResponseHours
    /\ weatherData' =
          [d \in DOMAIN nightHoursByDate |-> nightWeatherOf(nightHoursByDate[d])]
    /\ pc' = "done"
    /\ UNCHANGED <<dateVars, nightVars, hourIdx, nightHoursByDate, digestVars, moonVars, batchVars,
                   historyVars,
                   lifeVars>>

NextWeather == ReadHour \/ ReduceNights

SpecWeather == InitWeather /\ [][NextWeather]_vars

(***************************************************************************)
(* Claims about the weather aggregation (checked under SpecWeather).       *)
(***************************************************************************)
\* C5: for every night bucket the good-weather flag is true exactly when
\* average cloud cover < 30 and maximum precipitation probability < 20 and
\* average wind speed < 25, all strict.
C5_WeatherGateStrict ==
    pc = "done" =>
        \A d \in DOMAIN weatherData :
            LET b == nightHoursByDate[d]
                n == Len(b.indices)
            IN  weatherData[d].isGoodWeather <=>
                    /\ b.sumCloud < 30 * n
                    /\ b.maxPrecip < 20
                    /\ b.sumWind < 25 * n

\* a bucket whose average cloud cover is exactly 30, all else favourable,
\* is not good weather
C5_Witness ==
    /\ pc = "done"
    /\ \E d \in DOMAIN weatherData :
          LET b == nightHoursByDate[d]
          IN  /\ b.sumCloud = 30 * Len(b.indices)
              /\ b.maxPrecip = 0
              /\ b.sumWind < 25 * Len(b.indices)
              /\ ~weatherData[d].isGoodWeather

\* C9: every sample read so far, stamped (date X, hour h), is in the bucket
\* of X when 20 <= h <= 23, in the bucket of X - 1 when 0 <= h <= 2, and
\* in no bucket otherwise, on every host.
InBucket(i, d) ==
    /\ d \in DOMAIN nightHoursByDate
    /\ \E k \in 1..Len(nightHoursByDate[d].indices) :
          nightHoursByDate[d].indices[k] = i

C9_BucketOfSample ==
    \A i \in 0..(hourIdx - 1) :
        LET X == timeDate(i)
            h == timeHour(i)
            expected == IF h >= 20 THEN {X} ELSE IF h <= 2 THEN {X - 1} ELSE {}
        IN  \A d \in (DOMAIN nightHoursByDate) \cup expected :
                InBucket(i, d) <=> d \in expected

\* C10: every key of the returned map is one of the forecast's dates, none
\* lies before the first forecast date, and there are no more keys than
\* forecast days.
C10_KeysWithinHorizon ==
    pc = "done" =>
        /\ DOMAIN weatherData \subseteq ForecastDates
        /\ \A d \in DOMAIN weatherData : d >= ForecastFirstDate
        /\ Cardinality(DOMAIN weatherData) <= ResponseDays

\* the sum of one measure over the samples of a bucket
RECURSIVE SampleSum(_, _, _)
SampleSum(bag, elems, field) ==
    IF elems = {} THEN 0
    ELSE LET e == CHOOSE x \in elems : TRUE
         IN  bag[e] * e[field] + SampleSum(bag, elems \ {e}, field)

\* C11: per night bucket the reported precipitation probability is the
\* maximum over the bucket's samples, cloud cover and wind speed are the
\* rounded arithmetic means, and one sample with precipitation
\* probability >= 20 closes the weather gate whatever the other samples.
C11_PrecipIsMaximum ==
    pc = "done" =>
        \A d \in DOMAIN weatherData :
            LET b == nightHoursByDate[d]
                S == BagToSet(b.samples)
                n == Len(b.indices)
                w == weatherData[d]
            IN  /\ \A s \in S : w.precipitationProb >= s.precipitation_probability
                /\ \E s \in S : w.precipitationProb = s.precipitation_probability
                /\ w.cloudCover = roundAverage(SampleSum(b.samples, S, "cloud_cover"), n)
                /\ w.windSpeed = roundAverage(SampleSum(b.samples, S, "wind_speed_10m"), n)
                /\ (\E s \in S : s.precipitation_probability >= 20)
                      => ~w.isGoodWeather

\* one wet hour among dry ones: the mean is below 20, the night still fails
C11_Witness ==
    /\ pc = "done"
    /\ \E d \in DOMAIN weatherData :
          LET b == nightHoursByDate[d]
              n == Len(b.indices)
          IN  /\ n >= 3
              /\ b.sumPrecip = 20
              /\ b.sumCloud < 30 * n
              /\ b.sumWind < 25 * n
              /\ weatherData[d].precipitationProb = 20
              /\ ~weatherData[d].isGoodWeather

(***************************************************************************)
(* The digest run (POST /api/send-digest), for one subscriber: the week    *)
(* of candidate nights, the weather fetch, one analysis per night.         *)
(***************************************************************************)
WEATHER_FORECAST_DAYS == 7

\* the keys processHourlyData produces for a response of `days` days
forecastNightDates(days) ==
    {nightDateOf(i) : i \in 0..(HoursPerDay * days - 1)} \ {NoDate}

\* two nights the forecast may hold: clear and calm, and 31% cloud cover
\* with everything else favourable
ClearNight ==
    nightWeatherOf([indices |-> <<0>>, sumCloud |-> 10, sumWind |-> 5,
                    sumPrecip |-> 0, maxPrecip |-> 0])
CloudyNight ==
    nightWeatherOf([indices |-> <<0>>, sumCloud |-> 31, sumWind |-> 5,
                    sumPrecip |-> 0, maxPrecip |-> 0])

\* what SunCalc may answer in a digest run
DigestSunCalcAnswers(date) ==
    [moonIllum : { [phase |-> 500, fraction |-> 24],
                   [phase |-> 2500, fraction |-> 500],
                   [phase |-> 5000, fraction |-> 1000] },
     rise : {NoTime},
     set : {NoTime, date + 18 * MinutesPerHour + 30, date + 23 * MinutesPerHour},
     sunset : {date + 18 * MinutesPerHour}]

DigestHosts == {UTC, Tokyo}
DigestZones == {UTC, Tokyo, LosAngelesSpring}

InitDigest ==
    /\ pc = "run"
    /\ host \in DigestHosts
    /\ timezone \in DigestZones
    /\ now \in NowInstants
    /\ count = 0
    /\ dates = <<>>
    /\ given = None
    /\ night = None
    /\ lat = DefaultLat
    /\ lon = DefaultLon
    /\ hourIdx = 0
    /\ nightHoursByDate = EmptyMap
    /\ weatherData = EmptyMap
    /\ idx = 0
    /\ nightWeather = None
    /\ email = "none"
    /\ arg = 0
    /\ result = None
    /\ NoRequest

\* const dates = getNextWeek(location.timezone); let weatherData = new Map()
DigestGetDates ==
    /\ pc = "run"
    /\ dates' = getNextWeek(timezone)
    /\ count' = WeekDays
    /\ pc' = "weather"
    /\ UNCHANGED <<host, now, timezone, nightVars, weatherVars, digestVars,
                   moonVars, batchVars, historyVars,
                   lifeVars>>

\* weatherData = await getWeatherForecast(lat, lon), which answered
DigestWeatherFetched ==
    /\ pc = "weather"
    /\ LET keys == forecastNightDates(WEATHER_FORECAST_DAYS)
       IN  \E cloudy \in {{}, keys, {k \in keys : k % 2 = 0}} :
              weatherData' =
                  [k \in keys |-> IF k \in cloudy THEN CloudyNight ELSE ClearNight]
    /\ pc' = "analyse"
    /\ UNCHANGED <<dateVars, nightVars, hourIdx, nightHoursByDate, digestVars, moonVars, batchVars,
                   historyVars,
                   lifeVars>>

\* a plausible slip: no try / catch around the fetch, the error reaches the
\* handler's catch and the run ends with status 500
DigestWeatherFailed_propagates ==
    /\ pc = "weather"
    /\ pc' = "failed"
    /\ UNCHANGED <<dateVars, nightVars, weatherVars, digestVars, moonVars, batchVars,
                   historyVars,
                   lifeVars>>

\* getWeatherForecast threw: the catch logs, weatherData stays empty
DigestWeatherFailed ==
    /\ pc = "weather"
    /\ pc' = "analyse"
    /\ UNCHANGED <<dateVars, nightVars, weatherVars, digestVars, moonVars, batchVars,
                   historyVars,
                   lifeVars>>

\* one call of the dates.map callback
DigestAnalyzeNight ==
    /\ pc = "analyse"
    /\ idx < Len(dates)
    /\ LET date == dates[idx + 1]
           dateStr == toISODate(date)
       IN  /\ nightWeather' = IF dateStr \in DOMAIN weatherData
                              THEN weatherData[dateStr] ELSE None
           /\ \E sun \in DigestSunCalcAnswers(date) :
                 /\ given' = sun
                 /\ night' = analyzeNight(date, timezone, sun)
    /\ idx' = idx + 1
    /\ UNCHANGED <<pc, dateVars, lat, lon, weatherVars, email, moonVars, batchVars,
                   historyVars,
                   lifeVars>>

\* what the mail service may do with the request
SendOutcomes == {"ok", "rejected", "threw"}

\* the fetch of https://api.resend.com/emails, once every night is analysed
DigestSendEmail ==
    /\ pc = "analyse"
    /\ idx = Len(dates)
    /\ email' \in SendOutcomes
    /\ pc' = "sent"
    /\ UNCHANGED <<dateVars, nightVars, weatherVars, idx, nightWeather, moonVars, batchVars,
                   historyVars,
                   lifeVars>>

NextDigest ==
    \/ DigestGetDates
    \/ DigestWeatherFetched
    \/ DigestWeatherFailed
    \/ DigestAnalyzeNight
    \/ DigestSendEmail

SpecDigest == InitDigest /\ [][NextDigest]_vars

(***************************************************************************)
(* Claims about the analyses of a digest run (checked under SpecDigest).   *)
(***************************************************************************)
Analysed == pc = "analyse" /\ idx > 0
HasWeather == "isGoodWeather" \in DOMAIN nightWeather

\* C2: when the weather map holds an aggregate for the night and it is not
\* good weather, the analysis is not a good night and has no category,
\* also under a new or a full moon.
C2_WeatherGateCloses ==
    Analysed /\ HasWeather /\ ~nightWeather.isGoodWeather =>
        /\ night.isGoodNight = FALSE
        /\ night.goodNightType = Null

\* C3: when the weather map holds no entry for the night, isGoodNight is
\* decided by the moon criteria alone and the weather field is not "Clear".
C3_HorizonFallback ==
    Analysed /\ ~HasWeather =>
        /\ night.isGoodNight <=>
              \/ given.moonIllum.fraction > 900
              \/ given.moonIllum.fraction < 100
              \/ checkMoonSetsNearSunset(given.set, given.sunset)
        /\ night.weather # "Clear"

\* the weather fetch of this run failed: the map is still the empty one
WeatherFetchFailed == pc \notin {"run", "weather"} /\ weatherData = EmptyMap

\* C18: when the weather fetch fails the run goes on: every night is
\* analysed without weather data, there are seven analyses when the email
\* is sent, and the email is attempted.
C18_WeatherFailureRecovered ==
    WeatherFetchFailed =>
        /\ pc \in {"analyse", "sent"}
        /\ idx > 0 => ~HasWeather
        /\ pc = "sent" => idx = WeekDays /\ email \in SendOutcomes

\* a run whose fetch failed and whose email went out
C18_Witness ==
    /\ WeatherFetchFailed
    /\ pc = "sent"
    /\ idx = WeekDays
    /\ ~HasWeather
    /\ email = "ok"

(***************************************************************************)
(* getMoonPhaseName and the illumination rounding, as pure functions: the  *)
(* phase is in ten-thousandths, the fraction in thousandths.               *)
(***************************************************************************)
\* a plausible slip: the last return forgotten, phases near 1 stay waning
getMoonPhaseName_noWraparound(phase) ==
    IF phase < 625 THEN "New Moon"
    ELSE IF phase < 1875 THEN "Waxing Crescent"
    ELSE IF phase < 3125 THEN "First Quarter"
    ELSE IF phase < 4375 THEN "Waxing Gibbous"
    ELSE IF phase < 5625 THEN "Full Moon"
    ELSE IF phase < 6875 THEN "Waning Gibbous"
    ELSE IF phase < 8125 THEN "Last Quarter"
    ELSE "Waning Crescent"

getMoonPhaseName(phase) ==
    IF phase < 625 THEN "New Moon"
    ELSE IF phase < 1875 THEN "Waxing Crescent"
    ELSE IF phase < 3125 THEN "First Quarter"
    ELSE IF phase < 4375 THEN "Waxing Gibbous"
    ELSE IF phase < 5625 THEN "Full Moon"
    ELSE IF phase < 6875 THEN "Waning Gibbous"
    ELSE IF phase < 8125 THEN "Last Quarter"
    ELSE IF phase < 9375 THEN "Waning Crescent"
    ELSE "New Moon"

InitMoon ==
    /\ pc = "start"
    /\ host = UTC
    /\ timezone = UTC
    /\ now = FirstDay
    /\ count = 0
    /\ dates = <<>>
    /\ given = None
    /\ night = None
    /\ lat = DefaultLat
    /\ lon = DefaultLon
    /\ hourIdx = 0
    /\ nightHoursByDate = EmptyMap
    /\ weatherData = EmptyMap
    /\ idx = 0
    /\ nightWeather = None
    /\ email = "none"
    /\ arg \in 0..MaxPhase
    /\ result = None
    /\ NoRequest

\* getMoonPhaseName(night.moonPhase)
GetMoonPhaseName ==
    /\ pc = "start"
    /\ result' = [name |-> getMoonPhaseName(arg)]
    /\ pc' = "named"
    /\ UNCHANGED <<dateVars, nightVars, weatherVars, digestVars, arg, batchVars,
                   historyVars,
                   lifeVars>>

\* illumination: Math.round(illuminationPercent)
RoundIllumination ==
    /\ pc = "start"
    /\ arg <= MaxFraction
    /\ result' = [illumination |-> roundIllumination(arg)]
    /\ pc' = "rounded"
    /\ UNCHANGED <<dateVars, nightVars, weatherVars, digestVars, arg, batchVars,
                   historyVars,
                   lifeVars>>

NextMoon == GetMoonPhaseName \/ RoundIllumination

SpecMoon == InitMoon /\ [][NextMoon]_vars

(***************************************************************************)
(* Claims about the two pure functions (checked under SpecMoon).           *)
(***************************************************************************)
\* the eight names, from the bin centred on 0 onward
PhaseNames ==
    <<"New Moon", "Waxing Crescent", "First Quarter", "Waxing Gibbous",
      "Full Moon", "Waning Gibbous", "Last Quarter", "Waning Crescent">>

\* C16: every phase in [0, 1) gets the name of the bin of width 1/8
\* centred on k/8 it falls in; a bin's lower edge belongs to the later
\* phase, and phase 0 and phases from 0.9375 on are both "New Moon".
C16_EightBins ==
    pc = "named" =>
        /\ result.name = PhaseNames[(((arg + 625) \div 1250) % 8) + 1]
        /\ (arg = 0 \/ arg >= 9375) => result.name = "New Moon"

\* the wraparound, and a lower edge
C16_Witness ==
    /\ pc = "named"
    /\ arg = 9375
    /\ result.name = "New Moon"
    /\ getMoonPhaseName(625) = "Waxing Crescent"

\* C17: the reported illumination is fraction * 100 rounded to the nearest
\* integer, halves up, and is an integer in 0..100.
C17_RoundHalfUp ==
    pc = "rounded" =>
        /\ result.illumination = (arg + 5) \div 10
        /\ result.illumination \in 0..100

(***************************************************************************)
(* The digest request (POST /api/send-digest) over the subscribers table:  *)
(* the secret check, the SELECT, and for each row returned the frequency   *)
(* check, the week of candidate nights with its analyses, and the email.   *)
(* What the weather fetch answers does not reach the state kept here.      *)
(***************************************************************************)
\* a timezone column that holds no IANA zone; nothing validates the column
InvalidZone == [name |-> "Mars/Phobos", before |-> 0, after |-> 0, at |-> 0]

BatchNow == FirstDay + 12 * MinutesPerHour

\* the rows subscriber number i may be stored as
SubscriberRows(i) ==
    [email : {i},
     timezone : {UTC, InvalidZone},
     frequency : {"daily", "weekly"},
     confirmed : {0, 1},
     subscribed : {0, 1},
     last_email_sent : {NoTime, BatchNow - 30 * MinutesPerHour}]

\* the request: from localhost or not, with the right secret, a wrong one
\* or none
Requests ==
    [isLocalhost : BOOLEAN, cronSecret : {"CRON_SECRET", "wrong", Null}]

InitBatch ==
    /\ pc = "request"
    /\ host = UTC
    /\ timezone = UTC
    /\ now = BatchNow
    /\ count = 0
    /\ dates = <<>>
    /\ given = None
    /\ night = None
    /\ lat = DefaultLat
    /\ lon = DefaultLon
    /\ hourIdx = 0
    /\ nightHoursByDate = EmptyMap
    /\ weatherData = EmptyMap
    /\ idx = 0
    /\ nightWeather = None
    /\ email = "none"
    /\ arg = 0
    /\ result = None
    /\ request \in Requests
    /\ db \in [1..NumSubscribers -> UNION {SubscriberRows(i) : i \in 1..NumSubscribers}]
    /\ \A i \in 1..NumSubscribers : db[i].email = i
    /\ selected = <<>>
    /\ cursor = 0
    /\ emailsSent = 0
    /\ errors = <<>>
    /\ outbox = <<>>
    /\ response = None
    /\ log = <<>>
    /\ runs = 1
    /\ clients = <<>>
    /\ uuid = 0
    /\ started = 0
    /\ events = <<>>

Respond(status, success, sent, total, errs) ==
    [status |-> status, success |-> success, emailsSent |-> sent,
     totalSubscribers |-> total, errors |-> errs]

\* a plausible slip: the secret check left out
BatchAuthorize_noCheck ==
    /\ pc = "request"
    /\ pc' = "select"
    /\ UNCHANGED <<dateVars, nightVars, weatherVars, digestVars, moonVars,
                   batchVars, historyVars,
                   lifeVars>>

\* if (!isLocalhost && cronSecret !== CRON_SECRET) return 401
BatchAuthorize ==
    /\ pc = "request"
    /\ IF ~request.isLocalhost /\ request.cronSecret # "CRON_SECRET"
       THEN /\ response' = Respond(401, FALSE, 0, 0, <<>>)
            /\ pc' = "responded"
       ELSE /\ pc' = "select"
            /\ UNCHANGED response
    /\ UNCHANGED <<dateVars, nightVars, weatherVars, digestVars, moonVars,
                   request, db, selected, cursor, emailsSent, errors, outbox,
                   historyVars,
                   lifeVars>>

\* a plausible slip: the subscribed column left out of the WHERE clause
IsRecipient_confirmedOnly(row) == row.confirmed = 1

IsRecipient(row) == row.confirmed = 1 /\ row.subscribed = 1

\* SELECT ... FROM subscribers WHERE confirmed = 1 AND subscribed = 1
BatchSelect ==
    /\ pc = "select"
    /\ selected' = SelectSeq(db, IsRecipient)
    /\ IF selected' = <<>>
       THEN /\ response' = Respond(200, TRUE, 0, 0, <<>>)
            /\ pc' = "responded"
            /\ UNCHANGED cursor
       ELSE /\ cursor' = 1
            /\ pc' = "loop"
            /\ UNCHANGED response
    /\ UNCHANGED <<dateVars, nightVars, weatherVars, digestVars, moonVars,
                   request, db, emailsSent, errors, outbox, historyVars,
                   lifeVars>>

\* a plausible slip: <= in place of <
isThrottled_inclusive(row) ==
    /\ row.last_email_sent # NoTime
    /\ LET minutesSinceLastEmail == now - row.last_email_sent
       IN  \/ row.frequency = "daily" /\ minutesSinceLastEmail <= 20 * MinutesPerHour
           \/ row.frequency = "weekly" /\ minutesSinceLastEmail <= 144 * MinutesPerHour

\* the frequency check: daily within 20 hours, weekly within 144 hours
isThrottled(row) ==
    /\ row.last_email_sent # NoTime
    /\ LET minutesSinceLastEmail == now - row.last_email_sent
       IN  \/ row.frequency = "daily" /\ minutesSinceLastEmail < 20 * MinutesPerHour
           \/ row.frequency = "weekly" /\ minutesSinceLastEmail < 144 * MinutesPerHour

isValidTimezone(zone) == zone.name # InvalidZone.name

\* continue
BatchSkip ==
    /\ pc = "loop"
    /\ cursor <= Len(selected)
    /\ isThrottled(selected[cursor])
    /\ cursor' = cursor + 1
    /\ UNCHANGED <<pc, dateVars, nightVars, weatherVars, digestVars, moonVars,
                   request, db, selected, emailsSent, errors, outbox, response,
                   historyVars,
                   lifeVars>>

\* getNextWeek, the weather fetch and dates.map for a row that is due
BatchAnalyze ==
    /\ pc = "loop"
    /\ cursor <= Len(selected)
    /\ ~isThrottled(selected[cursor])
    /\ isValidTimezone(selected[cursor].timezone)
    /\ timezone' = selected[cursor].timezone
    /\ dates' = getNextWeek(selected[cursor].timezone)
    /\ count' = WeekDays
    /\ idx' = Len(dates')
    /\ pc' = "send"
    /\ UNCHANGED <<host, now, nightVars, weatherVars, nightWeather, email,
                   moonVars, batchVars, historyVars,
                   lifeVars>>

\* the same for a row whose timezone is no zone: the dates are Invalid
\* Dates and date.toISOString() throws a RangeError (or toZonedTime throws
\* it already); no try block of the loop encloses either, so the handler's
\* catch answers 500
BatchAnalyzeThrows ==
    /\ pc = "loop"
    /\ cursor <= Len(selected)
    /\ ~isThrottled(selected[cursor])
    /\ ~isValidTimezone(selected[cursor].timezone)
    /\ response' = Respond(500, FALSE, 0, 0, <<>>)
    /\ pc' = "responded"
    /\ UNCHANGED <<dateVars, nightVars, weatherVars, digestVars, moonVars,
                   request, db, selected, cursor, emailsSent, errors, outbox,
                   historyVars,
                   lifeVars>>

\* the email fetch; on response.ok the counter and last_email_sent
BatchSend ==
    /\ pc = "send"
    /\ LET to == selected[cursor].email
       IN  /\ outbox' = Append(outbox, to)
           /\ \E outcome \in SendOutcomes :
                 /\ log' = Append(log, [to |-> to, at |-> now,
                                        accepted |-> outcome = "ok"])
                 /\ IF outcome = "ok"
                    THEN /\ emailsSent' = emailsSent + 1
                         /\ db' = [i \in DOMAIN db |->
                                      IF db[i].email = to
                                      THEN [db[i] EXCEPT !.last_email_sent = now]
                                      ELSE db[i]]
                         /\ UNCHANGED errors
                    ELSE /\ errors' = Append(errors, to)
                         /\ UNCHANGED <<emailsSent, db>>
    /\ cursor' = cursor + 1
    /\ pc' = "loop"
    /\ UNCHANGED <<dateVars, nightVars, weatherVars, digestVars, moonVars,
                   request, selected, response, runs, lifeVars>>

\* after the loop: 200 with emailsSent, totalSubscribers and errors
BatchRespond ==
    /\ pc = "loop"
    /\ cursor > Len(selected)
    /\ response' = Respond(200, TRUE, emailsSent, Len(selected), errors)
    /\ pc' = "responded"
    /\ UNCHANGED <<dateVars, nightVars, weatherVars, digestVars, moonVars,
                   request, db, selected, cursor, emailsSent, errors, outbox,
                   historyVars,
                   lifeVars>>

NextBatch ==
    \/ BatchAuthorize
    \/ BatchSelect
    \/ BatchSkip
    \/ BatchAnalyze
    \/ BatchAnalyzeThrows
    \/ BatchSend
    \/ BatchRespond

SpecBatch == InitBatch /\ [][NextBatch]_vars

(***************************************************************************)
(* Claims about the digest request (checked under SpecBatch).              *)
(***************************************************************************)
InSeq(x, seq) == \E k \in 1..Len(seq) : seq[k] = x

\* C19: an error while generating or analysing the nights of one
\* subscriber does not abort the batch: when the request has been answered,
\* every row that was due and has a valid timezone was emailed, and a due
\* row with an invalid timezone is reported in the errors of a 200 response.
C19_ItemErrorDoesNotAbort ==
    pc = "responded" /\ selected # <<>> =>
        /\ response.status = 200
        /\ \A i \in 1..Len(selected) :
              ~isThrottled(selected[i]) =>
                  IF isValidTimezone(selected[i].timezone)
                  THEN InSeq(selected[i].email, outbox)
                  ELSE InSeq(selected[i].email, response.errors)

\* the request is neither from localhost nor carries the configured secret
Unauthorized == ~request.isLocalhost /\ request.cronSecret # "CRON_SECRET"

\* C21: a digest request from another host than localhost whose secret
\* header is wrong or missing is answered 401 and has no effect: no
\* subscriber query, no email, no last_email_sent update.
C21_UnauthorizedNoEffect ==
    Unauthorized =>
        /\ pc \in {"request", "responded"}
        /\ pc = "responded" => response.status = 401 /\ ~response.success
        /\ selected = <<>>
        /\ outbox = <<>>
        /\ emailsSent = 0
        /\ \A i \in DOMAIN db : db[i].last_email_sent # now

\* a request without the header, answered 401, with a recipient on file
C21_Witness ==
    /\ ~request.isLocalhost
    /\ request.cronSecret = Null
    /\ pc = "responded"
    /\ response.status = 401
    /\ \E i \in DOMAIN db : IsRecipient(db[i]) /\ ~isThrottled(db[i])
    /\ outbox = <<>>

(***************************************************************************)
(* Digest requests one after the other (the cron trigger), over two        *)
(* confirmed subscribers that have not been emailed yet.                   *)
(***************************************************************************)
CronRequest == [isLocalhost |-> FALSE, cronSecret |-> "CRON_SECRET"]

NewRecipients(i) ==
    [email : {i}, timezone : {UTC}, frequency : {"daily", "weekly"},
     confirmed : {1}, subscribed : {1}, last_email_sent : {NoTime}]

\* hours between the starts of two consecutive requests
RunGapHours == {1, 19, 20, 124}

InitRuns ==
    /\ pc = "request"
    /\ host = UTC
    /\ timezone = UTC
    /\ now = BatchNow
    /\ count = 0
    /\ dates = <<>>
    /\ given = None
    /\ night = None
    /\ lat = DefaultLat
    /\ lon = DefaultLon
    /\ hourIdx = 0
    /\ nightHoursByDate = EmptyMap
    /\ weatherData = EmptyMap
    /\ idx = 0
    /\ nightWeather = None
    /\ email = "none"
    /\ arg = 0
    /\ result = None
    /\ request = CronRequest
    /\ \E first \in NewRecipients(1) : \E second \in NewRecipients(2) :
          db = <<first, second>>
    /\ selected = <<>>
    /\ cursor = 0
    /\ emailsSent = 0
    /\ errors = <<>>
    /\ outbox = <<>>
    /\ response = None
    /\ log = <<>>
    /\ runs = 1
    /\ clients = <<>>
    /\ uuid = 0
    /\ started = 0
    /\ events = <<>>

\* the next request arrives after the previous one was answered
NextRun ==
    /\ pc = "responded"
    /\ runs < MaxRuns
    /\ \E gap \in RunGapHours : now' = now + gap * MinutesPerHour
    /\ runs' = runs + 1
    /\ pc' = "request"
    /\ dates' = <<>>
    /\ count' = 0
    /\ idx' = 0
    /\ selected' = <<>>
    /\ cursor' = 0
    /\ emailsSent' = 0
    /\ errors' = <<>>
    /\ outbox' = <<>>
    /\ response' = None
    /\ UNCHANGED <<host, timezone, nightVars, weatherVars, nightWeather, email,
                   moonVars, request, db, log, lifeVars>>

NextRuns ==
    \/ BatchAuthorize
    \/ BatchSelect
    \/ BatchSkip
    \/ BatchAnalyze
    \/ BatchSend
    \/ BatchRespond
    \/ NextRun

SpecRuns == InitRuns /\ [][NextRuns]_vars

(***************************************************************************)
(* Claims about consecutive digest requests (checked under SpecRuns).      *)
(***************************************************************************)
\* minutes that must lie between two digests of a subscriber
ThrottleWindow(frequency) ==
    IF frequency = "daily" THEN 20 * MinutesPerHour
    ELSE IF frequency = "weekly" THEN 144 * MinutesPerHour
    ELSE 0

\* the instants at which an email to `to` was accepted
AcceptedAt(to) ==
    {log[k].at : k \in {j \in 1..Len(log) : log[j].to = to /\ log[j].accepted}}

Connections == {1, 2}    \* requests that can be under way at once
LifeEmails == {1, 2}     \* addresses that occur in the requests
NoEmail == 0             \* the parameter is missing
NoToken == 0             \* NULL in confirm_token, or no token parameter

Idle ==
    [handler |-> "none", email |-> NoEmail, token |-> NoToken,
     pc |-> "idle", status |-> 0]

\* the Response of a request; its locals are gone
Returned(handler, address, status) ==
    [handler |-> handler, email |-> address, token |-> NoToken,
     pc |-> "done", status |-> status]

CanStart(c) ==
    /\ clients[c].pc \in {"idle", "done"}
    /\ started < MaxRequests

RowsOf(address) == {i \in DOMAIN db : db[i].email = address}

RowsWithToken(token) == {i \in DOMAIN db : db[i].confirm_token = token}

Event(address, kind) == [email |-> address, kind |-> kind]

\* a subscriber of long standing: subscribed with the first token and
\* confirmed it
Member ==
    [email |-> 2, timezone |-> UTC, frequency |-> "daily", confirmed |-> 1,
     subscribed |-> 1, last_email_sent |-> NoTime, confirm_token |-> NoToken]

InitLife ==
    /\ pc = "request"
    /\ host = UTC
    /\ timezone = UTC
    /\ now = BatchNow
    /\ count = 0
    /\ dates = <<>>
    /\ given = None
    /\ night = None
    /\ lat = DefaultLat
    /\ lon = DefaultLon
    /\ hourIdx = 0
    /\ nightHoursByDate = EmptyMap
    /\ weatherData = EmptyMap
    /\ idx = 0
    /\ nightWeather = None
    /\ email = "none"
    /\ arg = 0
    /\ result = None
    /\ request = CronRequest
    /\ db = <<Member>>
    /\ selected = <<>>
    /\ cursor = 0
    /\ emailsSent = 0
    /\ errors = <<>>
    /\ outbox = <<>>
    /\ response = None
    /\ log = <<>>
    /\ runs = 1
    /\ clients = [c \in Connections |-> Idle]
    /\ uuid = 1
    /\ started = 0
    /\ events = <<Event(Member.email, "subscribe"),
                  Event(Member.email, "confirm")>>

\* subscribe, lines 19-47: the body, the required fields, the token
SubscribeRequest(c) ==
    /\ CanStart(c)
    /\ \E address \in LifeEmails \cup {NoEmail} :
          IF address = NoEmail
          THEN /\ clients' = [clients EXCEPT
                                ![c] = Returned("subscribe", address, 400)]
               /\ UNCHANGED uuid
          ELSE /\ uuid' = uuid + 1
               /\ clients' = [clients EXCEPT
                                ![c] = [handler |-> "subscribe",
                                        email |-> address, token |-> uuid + 1,
                                        pc |-> "select", status |-> 0]]
    /\ started' = started + 1
    /\ UNCHANGED <<pc, dateVars, nightVars, weatherVars, digestVars, moonVars,
                   batchVars, historyVars, events>>

\* SELECT email, confirmed FROM subscribers WHERE email = ?
SubscribeSelect(c) ==
    /\ clients[c].handler = "subscribe"
    /\ clients[c].pc = "select"
    /\ LET existing == RowsOf(clients[c].email)
       IN  clients' = [clients EXCEPT ![c] =
               IF existing = {} THEN [@ EXCEPT !.pc = "insert"]
               ELSE IF \E i \in existing : db[i].confirmed = 1
                    THEN Returned("subscribe", @.email, 409)
                    ELSE [@ EXCEPT !.pc = "update"]]
    /\ UNCHANGED <<pc, dateVars, nightVars, weatherVars, digestVars, moonVars,
                   batchVars, historyVars, uuid, started, events>>

\* UPDATE subscribers SET ..., confirm_token = ?, subscribed = 1
\* WHERE email = ?, then the confirmation email
SubscribeUpdate(c) ==
    /\ clients[c].handler = "subscribe"
    /\ clients[c].pc = "update"
    /\ db' = [i \in DOMAIN db |->
                 IF db[i].email = clients[c].email
                 THEN [db[i] EXCEPT !.timezone = UTC, !.frequency = "daily",
                                    !.confirm_token = clients[c].token,
                                    !.subscribed = 1]
                 ELSE db[i]]
    /\ events' = IF RowsOf(clients[c].email) = {} THEN events
                 ELSE Append(events, Event(clients[c].email, "subscribe"))
    /\ \E outcome \in SendOutcomes :
          clients' = [clients EXCEPT ![c] =
              Returned("subscribe", @.email,
                       IF outcome = "ok" THEN 200 ELSE 500)]
    /\ UNCHANGED <<pc, dateVars, nightVars, weatherVars, digestVars, moonVars,
                   request, selected, cursor, emailsSent, errors, outbox,
                   response, historyVars, uuid, started>>

\* INSERT INTO subscribers (...) VALUES (...): confirmed and subscribed take
\* their defaults 0 and 1; a row with this email (the primary key) makes
\* the statement throw, and the handler's catch answers 500
SubscribeInsert(c) ==
    /\ clients[c].handler = "subscribe"
    /\ clients[c].pc = "insert"
    /\ IF RowsOf(clients[c].email) # {}
       THEN /\ clients' = [clients EXCEPT
                             ![c] = Returned("subscribe", @.email, 500)]
            /\ UNCHANGED <<db, events>>
       ELSE /\ db' = Append(db, [email |-> clients[c].email,
                                 timezone |-> UTC, frequency |-> "daily",
                                 confirmed |-> 0, subscribed |-> 1,
                                 last_email_sent |-> NoTime,
                                 confirm_token |-> clients[c].token])
            /\ events' = Append(events, Event(clients[c].email, "subscribe"))
            /\ \E outcome \in SendOutcomes :
                  clients' = [clients EXCEPT ![c] =
                      Returned("subscribe", @.email,
                               IF outcome = "ok" THEN 200 ELSE 500)]
    /\ UNCHANGED <<pc, dateVars, nightVars, weatherVars, digestVars, moonVars,
                   request, selected, cursor, emailsSent, errors, outbox,
                   response, historyVars, uuid, started>>

\* confirm, lines 7-21: the token parameter, any token generated so far
ConfirmRequest(c) ==
    /\ CanStart(c)
    /\ \E token \in 0..uuid :
          clients' = [clients EXCEPT ![c] =
              IF token = NoToken THEN Returned("confirm", NoEmail, 400)
              ELSE [handler |-> "confirm", email |-> NoEmail,
                    token |-> token, pc |-> "select", status |-> 0]]
    /\ started' = started + 1
    /\ UNCHANGED <<pc, dateVars, nightVars, weatherVars, digestVars, moonVars,
                   batchVars, historyVars, uuid, events>>

\* SELECT email, confirmed FROM subscribers WHERE confirm_token = ?
ConfirmSelect(c) ==
    /\ clients[c].handler = "confirm"
    /\ clients[c].pc = "select"
    /\ LET subscriber == RowsWithToken(clients[c].token)
       IN  clients' = [clients EXCEPT ![c] =
               IF subscriber = {} THEN Returned("confirm", NoEmail, 404)
               ELSE IF \E i \in subscriber : db[i].confirmed = 1
                    THEN Returned("confirm", NoEmail, 200)
                    ELSE [@ EXCEPT !.pc = "update"]]
    /\ UNCHANGED <<pc, dateVars, nightVars, weatherVars, digestVars, moonVars,
                   batchVars, historyVars, uuid, started, events>>

\* UPDATE subscribers SET confirmed = 1, confirm_token = NULL
\* WHERE confirm_token = ?
ConfirmUpdate(c) ==
    /\ clients[c].handler = "confirm"
    /\ clients[c].pc = "update"
    /\ db' = [i \in DOMAIN db |->
                 IF db[i].confirm_token = clients[c].token
                 THEN [db[i] EXCEPT !.confirmed = 1, !.confirm_token = NoToken]
                 ELSE db[i]]
    /\ events' = IF RowsWithToken(clients[c].token) = {} THEN events
                 ELSE Append(events,
                             Event(db[CHOOSE i \in RowsWithToken(clients[c].token) :
                                         TRUE].email, "confirm"))
    /\ clients' = [clients EXCEPT ![c] = Returned("confirm", NoEmail, 200)]
    /\ UNCHANGED <<pc, dateVars, nightVars, weatherVars, digestVars, moonVars,
                   request, selected, cursor, emailsSent, errors, outbox,
                   response, historyVars, uuid, started>>

\* unsubscribe, lines 7-25: the email parameter (the signature is not read)
UnsubscribeRequest(c) ==
    /\ CanStart(c)
    /\ \E address \in LifeEmails \cup {NoEmail} :
          clients' = [clients EXCEPT ![c] =
              IF address = NoEmail THEN Returned("unsubscribe", address, 400)
              ELSE [handler |-> "unsubscribe", email |-> address,
                    token |-> NoToken, pc |-> "select", status |-> 0]]
    /\ started' = started + 1
    /\ UNCHANGED <<pc, dateVars, nightVars, weatherVars, digestVars, moonVars,
                   batchVars, historyVars, uuid, events>>

\* SELECT email, subscribed FROM subscribers WHERE email = ?
UnsubscribeSelect(c) ==
    /\ clients[c].handler = "unsubscribe"
    /\ clients[c].pc = "select"
    /\ LET subscriber == RowsOf(clients[c].email)
       IN  clients' = [clients EXCEPT ![c] =
               IF subscriber = {} THEN Returned("unsubscribe", @.email, 404)
               ELSE IF \E i \in subscriber : db[i].subscribed = 0
                    THEN Returned("unsubscribe", @.email, 200)
                    ELSE [@ EXCEPT !.pc = "update"]]
    /\ UNCHANGED <<pc, dateVars, nightVars, weatherVars, digestVars, moonVars,
                   batchVars, historyVars, uuid, started, events>>

\* UPDATE subscribers SET subscribed = 0 WHERE email = ?
UnsubscribeUpdate(c) ==
    /\ clients[c].handler = "unsubscribe"
    /\ clients[c].pc = "update"
    /\ db' = [i \in DOMAIN db |->
                 IF db[i].email = clients[c].email
                 THEN [db[i] EXCEPT !.subscribed = 0]
                 ELSE db[i]]
    /\ events' = IF RowsOf(clients[c].email) = {} THEN events
                 ELSE Append(events, Event(clients[c].email, "unsubscribe"))
    /\ clients' = [clients EXCEPT
                     ![c] = Returned("unsubscribe", @.email, 200)]
    /\ UNCHANGED <<pc, dateVars, nightVars, weatherVars, digestVars, moonVars,
                   request, selected, cursor, emailsSent, errors, outbox,
                   response, historyVars, uuid, started>>

NextLife ==
    \/ \E c \in Connections : SubscribeRequest(c)
    \/ \E c \in Connections : SubscribeSelect(c)
    \/ \E c \in Connections : SubscribeUpdate(c)
    \/ \E c \in Connections : SubscribeInsert(c)
    \/ \E c \in Connections : ConfirmRequest(c)
    \/ \E c \in Connections : ConfirmSelect(c)
    \/ \E c \in Connections : ConfirmUpdate(c)
    \/ \E c \in Connections : UnsubscribeRequest(c)
    \/ \E c \in Connections : UnsubscribeSelect(c)
    \/ \E c \in Connections : UnsubscribeUpdate(c)
    \/ BatchAuthorize
    \/ BatchSelect
    \/ BatchAnalyze
    \/ BatchSend
    \/ BatchRespond

SpecLife == InitLife /\ [][NextLife]_vars

(***************************************************************************)
(* Claims about the subscriber lifecycle (checked under SpecLife).         *)
(***************************************************************************)
EventsOf(address) == {k \in 1..Len(events) : events[k].email = address}

\* the kind of the last write a request made to the row of `address`
LatestKind(address) ==
    IF EventsOf(address) = {} THEN "none"
    ELSE events[CHOOSE k \in EventsOf(address) :
                    \A j \in EventsOf(address) : j <= k].kind

\* a confirm request's UPDATE matched the row of `address`
ConfirmedByToken(address) ==
    \E k \in EventsOf(address) : events[k].kind = "confirm"

\* C23: a subscribe request whose SELECT finds the email confirmed and
\* unsubscribed (the latest write to the row being the unsubscribe) is not
\* answered 409 'Email already subscribed'.
C23_ResubscribeAccepted ==
    [][\A c \in Connections :
          (/\ clients[c].handler = "subscribe"
           /\ clients[c].pc = "select"
           /\ clients'[c].pc = "done"
           /\ LatestKind(clients[c].email) = "unsubscribe"
           /\ \E i \in RowsOf(clients[c].email) :
                 db[i].confirmed = 1 /\ db[i].subscribed = 0)
              => clients'[c].status # 409]_vars

\* C24: whatever the interleaving of the SELECTs and writes of subscribe
\* and confirm requests, a row with confirmed = 1 has confirm_token NULL.
C24_ConfirmedHasNoToken ==
    \A i \in DOMAIN db : db[i].confirmed = 1 => db[i].confirm_token = NoToken

\* C25: the SELECT of a digest request returns exactly the rows with
\* confirmed = 1 and subscribed = 1 at that moment, none of them for an
\* email that no confirm request confirmed by its token or whose latest
\* write is an unsubscribe, and the request emails nobody but those rows.
C25_OnlyConfirmedSubscribed ==
    [][/\ (pc = "select" /\ pc' # "select") =>
              /\ \A i \in DOMAIN db :
                    InSeq(db[i], selected')
                        <=> (db[i].confirmed = 1 /\ db[i].subscribed = 1)
              /\ \A j \in DOMAIN selected' :
                    /\ ConfirmedByToken(selected'[j].email)
                    /\ LatestKind(selected'[j].email) # "unsubscribe"
       /\ \A k \in DOMAIN outbox' :
              \E j \in DOMAIN selected' : selected'[j].email = outbox'[k]]_vars

\* the digest went to the member of long standing and not to the address
\* that subscribed, confirmed and then unsubscribed
C25_Witness ==
    /\ pc = "responded"
    /\ response.status = 200
    /\ InSeq(Member.email, outbox)
    /\ \E address \in LifeEmails :
          /\ ConfirmedByToken(address)
          /\ LatestKind(address) = "unsubscribe"
          /\ ~InSeq(address, outbox)
          /\ \A j \in DOMAIN selected : selected[j].email # address

====
